---- MODULE Spec2Model ----
(***************************************************************************)
(* Model of the resource bring-up of package kothak                        *)
(* (src/internal/kothak/kothak.go): New spawns one goroutine ("unit") per  *)
(* configured object storage, redis and database entry, every unit either  *)
(* installs its handle in the registry map of its family or appends its    *)
(* error to the shared slice errs, and New waits on a sync.WaitGroup       *)
(* before it returns the registry and errs[0].                             *)
(*                                                                         *)
(* The units share errs and the three maps without any lock.  The model    *)
(* keeps the grain of those accesses: `errs = append(errs, err)` is a read *)
(* of the slice followed by a write of the extended copy, and a map        *)
(* assignment has a begin and an end.  Two map assignments that overlap    *)
(* are a data race whose outcome the Go runtime does not define: the       *)
(* entry is stored, the entry is lost, or the runtime stops the process    *)
(* with "fatal error: concurrent map writes".                              *)
(*                                                                         *)
(* A unit takes one step per external call: the call returns, with or      *)
(* without an error, while the other units and New go on.  Its accesses    *)
(* to errs and to the maps are steps of their own.  The trace spans (the   *)
(* variable span that New and every unit assign, kothak.go:39, 64, 153,    *)
(* 181, and the deferred span.End calls) are left out: no property stated  *)
(* here reads them.                                                        *)
(*                                                                         *)
(* Spec is New under every interleaving of its units, FairSpec is Spec     *)
(* under a fair scheduler.  RegSpec is New followed by any sequence of     *)
(* calls of the methods of the registry it returned: GetSQLDB, GetRedis,   *)
(* GetObjectStorage, their Must variants and CloseAll.                     *)
(***************************************************************************)
EXTENDS Naturals, Sequences, FiniteSets

\* ---------------------------------------------------------------- bounds
MaxUnits == 3

\* Resource names, as numbers.
Names == 1..MaxUnits

\* ------------------------------------------------- provider identifiers
\* Strings are sequences of characters so that strings.ToLower is computed.
StorageLocal == <<"l", "o", "c", "a", "l">>
StorageGCS == <<"g", "c", "s">>
StorageS3 == <<"s", "3">>
StorageDO == <<"d", "o">>
StorageMinio == <<"m", "i", "n", "i", "o">>

Providers == {StorageLocal, <<"G", "C", "S">>, StorageS3, <<"f", "t", "p">>}

UpperLetters ==
    <<"A", "B", "C", "D", "E", "F", "G", "H", "I", "J", "K", "L", "M",
      "N", "O", "P", "Q", "R", "S", "T", "U", "V", "W", "X", "Y", "Z">>

LowerLetters ==
    <<"a", "b", "c", "d", "e", "f", "g", "h", "i", "j", "k", "l", "m",
      "n", "o", "p", "q", "r", "s", "t", "u", "v", "w", "x", "y", "z">>

\* strings.ToLower on one character: an upper-case letter is mapped to its
\* lower-case letter, every other character to itself.
LowerChar(c) ==
    IF \E i \in DOMAIN UpperLetters : UpperLetters[i] = c
      THEN LowerLetters[CHOOSE i \in DOMAIN UpperLetters : UpperLetters[i] = c]
      ELSE c

ToLower(s) == [i \in DOMAIN s |-> LowerChar(s[i])]

\* The branch of the switch at kothak.go:73 a provider string selects.
ProviderKind(provider) ==
    LET p == ToLower(provider) IN
    CASE p = StorageLocal -> "local"
      [] p = StorageGCS -> "gcs"
      [] p \in {StorageS3, StorageDO, StorageMinio} -> "s3"
      [] OTHER -> "default"

\* ----------------------------------------------------------- the config
ObjEntries == [family : {"obj"}, name : Names, provider : Providers, replica : {FALSE}]
RdsEntries == [family : {"rds"}, name : Names, provider : {<<>>}, replica : {FALSE}]
DBEntries == [family : {"db"}, name : Names, provider : {<<>>}, replica : BOOLEAN]
Entries == ObjEntries \cup RdsEntries \cup DBEntries

FamilyRank(f) == CASE f = "obj" -> 1 [] f = "rds" -> 2 [] f = "db" -> 3

\* New ranges over ObjectStorageConfig, then RedisConfig.Rds, then
\* DBConfig.SQLDBs: the units are numbered in that order.
Configs ==
    UNION {{c \in [1..n -> Entries] :
               \A i \in 1..n : \A j \in 1..n :
                   i < j => FamilyRank(c[i].family) <= FamilyRank(c[j].family)}
           : n \in 0..MaxUnits}

\* The position of entry i among the entries of its family.
FamilyPos(c, i) == Cardinality({j \in 1..i : c[j].family = c[i].family})

\* Rank of an entry among the entries of its family.
EntryRank(e) ==
    IF e.family = "db"
      THEN (IF e.replica THEN 2 ELSE 1)
      ELSE LET k == ProviderKind(e.provider) IN
           CASE k = "local" -> 1 [] k = "gcs" -> 2 [] k = "s3" -> 3 [] OTHER -> 4

\* The configurations that are drawn.  The order of the entries of one
\* family only decides the order in which their units are spawned, and
\* names matter only through being equal or different: the entries of a
\* family are listed by rank, the k-th entry of a family is named k, and
\* the second entry may repeat the name of the first (the configuration is
\* not checked for duplicate names).
Canonical(c) ==
    /\ \A i \in DOMAIN c :
        LET k == FamilyPos(c, i) IN
        c[i].name = k \/ (k = 2 /\ c[i].name = 1)
    /\ \A i \in DOMAIN c : \A j \in DOMAIN c :
        (i < j /\ c[i].family = c[j].family) => EntryRank(c[i]) <= EntryRank(c[j])

\* An error value: the unit whose code obtained it (0: New itself) and
\* whether a call returned it or errors.New made it (kothak.go:133).
NoErr == [unit |-> 0, from |-> "nil"]
Err(u, from) == [unit |-> u, from |-> from]

VARIABLES
    units,       \* the configuration: the sequence of entries
    defaulted,   \* outcome of DBConfig.SetDefault: "no" (not run), "ok", "failed"
    pcMain,      \* position of New
    next,        \* index of the next entry New spawns a unit for
    wg,          \* counter of the sync.WaitGroup
    upc,         \* position of every unit
    uerr,        \* the error with which a unit failed (NoErr: none)
    snap,        \* the value of errs a unit read in append
    handle,      \* the handle a unit built
    raced,       \* whether a unit's map assignment overlapped another one
    calls,       \* the external calls a unit made, in order, until the unit
                 \* starts to record its outcome
    errs,        \* the shared failure list
    objStorages, \* kothak.objStorages
    rds,         \* kothak.rds
    dbs,         \* kothak.dbs
    first,       \* the unit whose append was written first (0: none yet)
    fatal,       \* the runtime stopped the process
    retK,        \* the *Kothak New returned: "none" (not yet), "nil", "ptr"
    retErr,      \* the error New returned
    got,         \* the latest call on the registry and what it returned
    exited,      \* logger.Fatalf ended the process
    closed,      \* the handle of every unit: "open", "closed", "reclosed"
    closeLog,    \* the handles the latest call closed, in order
    firstFailed  \* which of these Close calls failed first (0: none)

\* What the calls on the registry change besides the registry.
regVars == <<got, exited, closed, closeLog, firstFailed>>

vars == <<units, defaulted, pcMain, next, wg, upc, uerr, snap, handle, raced, calls,
          errs, objStorages, rds, dbs, first, fatal, retK, retErr, got, exited,
          closed, closeLog, firstFailed>>

U == DOMAIN units

EmptyMap == [n \in {} |-> NoErr]

MapPut(m, k, v) == [n \in (DOMAIN m) \cup {k} |-> IF n = k THEN v ELSE m[n]]

\* The nil handle (a nil pointer, a nil interface value).
NilHandle == [unit |-> 0]

\* The names a caller looks up in family f: those of the entries of f, and
\* 0, the name of no entry.
LookupNames(f) ==
    {0} \cup {units[u].name : u \in {v \in DOMAIN units : units[v].family = f}}

\* A call on the registry: the method, its family and name argument, the
\* handle and error it returned, and whether it returned at all.
Call(op, f, name, h, e, ret) ==
    [op |-> op, family |-> f, name |-> name, handle |-> h, err |-> e,
     returned |-> ret]

NoCall == Call("none", "none", 0, NilHandle, NoErr, FALSE)

Init ==
    /\ units \in {c \in Configs : Canonical(c)}
    /\ defaulted = "no"
    /\ pcMain = "setDefault"
    /\ next = 1
    /\ wg = 0
    /\ upc = [u \in DOMAIN units |-> "idle"]
    /\ uerr = [u \in DOMAIN units |-> NoErr]
    /\ snap = [u \in DOMAIN units |-> <<>>]
    /\ handle = [u \in DOMAIN units |-> [unit |-> 0]]
    /\ raced = [u \in DOMAIN units |-> FALSE]
    /\ calls = [u \in DOMAIN units |-> <<>>]
    /\ errs = <<>>
    /\ objStorages = EmptyMap
    /\ rds = EmptyMap
    /\ dbs = EmptyMap
    /\ first = 0
    /\ fatal = FALSE
    /\ retK = "none"
    /\ retErr = NoErr
    /\ got = NoCall
    /\ exited = FALSE
    /\ closed = [u \in DOMAIN units |-> "open"]
    /\ closeLog = <<>>
    /\ firstFailed = 0


\* ------------------------------------------------------------------ New
\* A defaulting error is returned together with the empty registry.
SetDefaultReturnsRegistry(ok) ==
    /\ ~fatal
    /\ pcMain = "setDefault"
    /\ defaulted' = IF ok THEN "ok" ELSE "failed"
    /\ IF ok
         THEN /\ pcMain' = "spawn"
              /\ UNCHANGED <<retK, retErr>>
         ELSE /\ pcMain' = "returned"
              /\ retK' = "ptr"
              /\ retErr' = Err(0, "call")
    /\ UNCHANGED <<units, next, wg, upc, uerr, snap, handle, raced, calls,
                   errs, objStorages, rds, dbs, first, fatal>>
    /\ UNCHANGED regVars

\* A defaulting error is ignored and the units are spawned.
SetDefaultNoAbort(ok) ==
    /\ ~fatal
    /\ pcMain = "setDefault"
    /\ defaulted' = IF ok THEN "ok" ELSE "failed"
    /\ pcMain' = "spawn"
    /\ UNCHANGED <<units, next, wg, upc, uerr, snap, handle, raced, calls,
                   errs, objStorages, rds, dbs, first, fatal, retK, retErr>>
    /\ UNCHANGED regVars

\* kothak.go:55-58: DBConfig.SetDefault gates the whole bring-up; ok is
\* whether it succeeds.
SetDefault(ok) ==
    /\ ~fatal
    /\ pcMain = "setDefault"
    /\ defaulted' = IF ok THEN "ok" ELSE "failed"
    /\ IF ok
         THEN /\ pcMain' = "spawn"
              /\ UNCHANGED <<retK, retErr>>
         ELSE /\ pcMain' = "returned"
              /\ retK' = "nil"
              /\ retErr' = Err(0, "call")
    /\ UNCHANGED <<units, next, wg, upc, uerr, snap, handle, raced, calls,
                   errs, objStorages, rds, dbs, first, fatal>>
    /\ UNCHANGED regVars

\* group.Add(1); go func(config) {...}(config)
SpawnUnit(family) ==
    /\ ~fatal
    /\ pcMain = "spawn"
    /\ next \in U
    /\ units[next].family = family
    /\ wg' = wg + 1
    /\ upc' = [upc EXCEPT ![next] = "run"]
    /\ next' = next + 1
    /\ UNCHANGED <<units, defaulted, pcMain, uerr, snap, handle, raced, calls, errs,
                   objStorages, rds, dbs, first, fatal, retK, retErr>>
    /\ UNCHANGED regVars

\* kothak.go:61-63
SpawnObjStorage == SpawnUnit("obj")

\* kothak.go:150-152
SpawnRedis == SpawnUnit("rds")

\* kothak.go:178-180
SpawnDB == SpawnUnit("db")

\* New returns without waiting for the units.
ReturnWithoutWait ==
    /\ ~fatal
    /\ pcMain = "spawn"
    /\ next \notin U
    /\ retErr' = IF Len(errs) > 0 THEN errs[1] ELSE NoErr
    /\ retK' = "ptr"
    /\ pcMain' = "returned"
    /\ UNCHANGED <<units, defaulted, next, wg, upc, uerr, snap, handle, raced,
                   calls, errs, objStorages, rds, dbs, first, fatal>>
    /\ UNCHANGED regVars

\* The test the comment at kothak.go:242 describes: "greater than 1".
ReturnIfMoreThanOne ==
    /\ ~fatal
    /\ pcMain = "spawn"
    /\ next \notin U
    /\ wg = 0
    /\ retErr' = IF Len(errs) > 1 THEN errs[1] ELSE NoErr
    /\ retK' = "ptr"
    /\ pcMain' = "returned"
    /\ UNCHANGED <<units, defaulted, next, wg, upc, uerr, snap, handle, raced,
                   calls, errs, objStorages, rds, dbs, first, fatal>>
    /\ UNCHANGED regVars

\* kothak.go:241-248: group.Wait() returns once the counter is zero; New
\* then returns the registry and errs[0], if there is one.
WaitAndReturn ==
    /\ ~fatal
    /\ pcMain = "spawn"
    /\ next \notin U
    /\ wg = 0
    /\ retErr' = IF Len(errs) > 0 THEN errs[1] ELSE NoErr
    /\ retK' = "ptr"
    /\ pcMain' = "returned"
    /\ UNCHANGED <<units, defaulted, next, wg, upc, uerr, snap, handle, raced, calls,
                   errs, objStorages, rds, dbs, first, fatal>>
    /\ UNCHANGED regVars

\* ------------------------------------------------------------ the units
\* The external calls a unit makes, in order, when none of them fails.
ObjSteps(provider) ==
    LET k == ProviderKind(provider) IN
    CASE k = "local" -> <<"local.New">>
      [] k = "gcs" -> <<"gcs.CredentialsFromFile", "gcs.NewConfig", "gcs.New">>
      [] k = "s3" -> <<"s3.CredentialsFromClient", "s3.NewConfig", "s3.New">>
      [] OTHER -> <<>>

RdsSteps == <<"redigo.New">>

\* The replica is connected before the leader.
DBStepsFollowerFirst(replica) ==
    <<"LeaderConnConfig.SetDefault">>
    \o (IF replica THEN <<"sqldb.Connect/replica">> ELSE <<>>)
    \o <<"sqldb.Connect/leader", "sqldb.Wrap">>

\* kothak.go:197-232
DBSteps(replica) ==
    <<"LeaderConnConfig.SetDefault", "sqldb.Connect/leader">>
    \o (IF replica THEN <<"sqldb.Connect/replica">> ELSE <<>>)
    \o <<"sqldb.Wrap">>

\* Every database unit connects a second pool.
FollowerAlwaysConnected(u, replica) == <<u, "replica">>

\* kothak.go:214-226: the follower pool is the leader pool unless a replica
\* DSN is configured, in which case it is the pool of a second Connect.
FollowerPool(u, replica) ==
    IF replica THEN <<u, "replica">> ELSE <<u, "leader">>

ObjHandle(u) == [unit |-> u, kind |-> ProviderKind(units[u].provider)]
RdsHandle(u) == [unit |-> u]
DBHandle(u) ==
    [unit |-> u, leader |-> <<u, "leader">>,
     follower |-> FollowerPool(u, units[u].replica)]

Installing(f) == {v \in U : upc[v] = "installing" /\ units[v].family = f}

\* One external call of unit u returns: the next of steps.  With an error
\* the unit is left with err set, about to append it; without one the unit
\* goes on to its next call or, after the last, holds the handle h it is
\* about to install.
CallReturns(u, steps, h) ==
    /\ Len(calls[u]) < Len(steps)
    /\ calls' = [calls EXCEPT ![u] = Append(@, steps[Len(@) + 1])]
    /\ \E ok \in BOOLEAN :
         IF ~ok
           THEN /\ uerr' = [uerr EXCEPT ![u] = Err(u, "call")]
                /\ upc' = [upc EXCEPT ![u] = "failed"]
                /\ UNCHANGED handle
           ELSE IF Len(calls[u]) + 1 = Len(steps)
                  THEN /\ handle' = [handle EXCEPT ![u] = h]
                       /\ upc' = [upc EXCEPT ![u] = "built"]
                       /\ UNCHANGED uerr
                  ELSE UNCHANGED <<uerr, upc, handle>>
    /\ UNCHANGED <<units, defaulted, pcMain, next, wg, snap, raced, errs,
                   objStorages, rds, dbs, first, fatal, retK, retErr>>

\* kothak.go:63-143: the next call of the provider's arm of the switch; in
\* the default arm, errors.New.
RunObjStorage(u) ==
    /\ ~fatal
    /\ upc[u] = "run"
    /\ units[u].family = "obj"
    /\ LET steps == ObjSteps(units[u].provider) IN
       IF steps = <<>>
         THEN /\ uerr' = [uerr EXCEPT ![u] = Err(u, "errors.New")]
              /\ upc' = [upc EXCEPT ![u] = "failed"]
              /\ UNCHANGED <<units, defaulted, pcMain, next, wg, snap, handle,
                             raced, calls, errs, objStorages, rds, dbs, first,
                             fatal, retK, retErr>>
         ELSE CallReturns(u, steps, ObjHandle(u))
    /\ UNCHANGED regVars

\* kothak.go:152-171
RunRedis(u) ==
    /\ ~fatal
    /\ upc[u] = "run"
    /\ units[u].family = "rds"
    /\ CallReturns(u, RdsSteps, RdsHandle(u))
    /\ UNCHANGED regVars

\* kothak.go:180-234
RunDB(u) ==
    /\ ~fatal
    /\ upc[u] = "run"
    /\ units[u].family = "db"
    /\ CallReturns(u, DBSteps(units[u].replica), DBHandle(u))
    /\ UNCHANGED regVars

\* errs = append(errs, err), first half: the unit reads the slice.
AppendRead(u) ==
    /\ ~fatal
    /\ upc[u] = "failed"
    /\ snap' = [snap EXCEPT ![u] = errs]
    /\ upc' = [upc EXCEPT ![u] = "appendW"]
    /\ calls' = [calls EXCEPT ![u] = <<>>]
    /\ UNCHANGED <<units, defaulted, pcMain, next, wg, uerr, handle, raced, errs,
                   objStorages, rds, dbs, first, fatal, retK, retErr>>
    /\ UNCHANGED regVars

\* kothak.<map>[name] = handle, begin of the assignment.  It overlaps the
\* assignment of every unit that is inside one on the same map.
MapBegin(u) ==
    /\ ~fatal
    /\ upc[u] = "built"
    /\ LET others == Installing(units[u].family) IN
       raced' = [v \in U |-> IF v \in others \/ (v = u /\ others # {})
                               THEN TRUE ELSE raced[v]]
    /\ upc' = [upc EXCEPT ![u] = "installing"]
    /\ calls' = [calls EXCEPT ![u] = <<>>]
    /\ UNCHANGED <<units, defaulted, pcMain, next, wg, uerr, snap, handle, errs,
                   objStorages, rds, dbs, first, fatal, retK, retErr>>
    /\ UNCHANGED regVars

\* errs = append(errs, err), second half: the unit stores the slice it
\* read, extended by its error; then return runs the deferred group.Done()
\* and the goroutine is gone.
AppendWrite(u) ==
    /\ ~fatal
    /\ upc[u] = "appendW"
    /\ errs' = Append(snap[u], uerr[u])
    /\ first' = IF first = 0 THEN u ELSE first
    /\ snap' = [snap EXCEPT ![u] = <<>>]
    /\ upc' = [upc EXCEPT ![u] = "done"]
    /\ wg' = wg - 1
    /\ UNCHANGED <<units, defaulted, pcMain, next, uerr, handle, raced, calls,
                   objStorages, rds, dbs, fatal, retK, retErr>>
    /\ UNCHANGED regVars

\* What an assignment that overlapped another one on the same map can do.
MapWriteOutcomes(isRaced) ==
    IF isRaced THEN {"stored", "lost", "fatal"} ELSE {"stored"}

\* kothak.<map>[name] = handle, end of the assignment; then the unit
\* returns, the deferred group.Done() runs and the goroutine is gone.  When
\* the runtime detects the overlap, the whole process stops instead.
MapEnd(u) ==
    /\ ~fatal
    /\ upc[u] = "installing"
    /\ \E o \in MapWriteOutcomes(raced[u]) :
         LET f == units[u].family
             nm == units[u].name
         IN /\ fatal' = (o = "fatal")
            /\ objStorages' = IF f = "obj" /\ o = "stored"
                                THEN MapPut(objStorages, nm, handle[u])
                                ELSE objStorages
            /\ rds' = IF f = "rds" /\ o = "stored"
                        THEN MapPut(rds, nm, handle[u]) ELSE rds
            /\ dbs' = IF f = "db" /\ o = "stored"
                        THEN MapPut(dbs, nm, handle[u]) ELSE dbs
            /\ IF o = "fatal"
                 THEN UNCHANGED <<upc, wg, raced>>
                 ELSE /\ upc' = [upc EXCEPT ![u] = "done"]
                      /\ wg' = wg - 1
                      /\ raced' = [raced EXCEPT ![u] = FALSE]
    /\ UNCHANGED <<units, defaulted, pcMain, next, uerr, snap, handle, calls, errs,
                   first, retK, retErr>>
    /\ UNCHANGED regVars

\* ------------------------------------------------------- the registry
\* The registry New returned is in the caller's hands.
Usable == ~fatal /\ ~exited /\ pcMain = "returned" /\ retK = "ptr"

RegistryMap(f) ==
    CASE f = "obj" -> objStorages [] f = "rds" -> rds [] f = "db" -> dbs

\* i, ok := m[name]
Lookup(m, name) ==
    IF name \in DOMAIN m THEN <<m[name], TRUE>> ELSE <<NilHandle, FALSE>>

\* fmt.Errorf("kothak: ... with name %s does not exists", name)
NotExists == Err(0, "fmt.Errorf")

\* A miss ends the process, as MustGet does.
GetOrExit(f, name) ==
    /\ Usable
    /\ LET r == Lookup(RegistryMap(f), name) IN
       IF r[2]
         THEN /\ got' = Call("get", f, name, r[1], NoErr, TRUE)
              /\ UNCHANGED exited
         ELSE /\ got' = Call("get", f, name, NilHandle, NoErr, FALSE)
              /\ exited' = TRUE
    /\ closeLog' = <<>>
    /\ firstFailed' = 0
    /\ UNCHANGED <<units, defaulted, pcMain, next, wg, upc, uerr, snap, handle,
                   raced, calls, errs, objStorages, rds, dbs, first, fatal, retK,
                   retErr, closed>>

\* kothak.go:268-276, 287-295, 306-314: the lookup, and on a miss the nil
\* handle with an error.
Get(f, name) ==
    /\ Usable
    /\ LET r == Lookup(RegistryMap(f), name) IN
       got' = IF r[2] THEN Call("get", f, name, r[1], NoErr, TRUE)
                      ELSE Call("get", f, name, NilHandle, NotExists, TRUE)
    /\ closeLog' = <<>>
    /\ firstFailed' = 0
    /\ UNCHANGED <<units, defaulted, pcMain, next, wg, upc, uerr, snap, handle,
                   raced, calls, errs, objStorages, rds, dbs, first, fatal, retK,
                   retErr, exited, closed>>

GetSQLDB(name) == Get("db", name)
GetRedis(name) == Get("rds", name)
GetObjectStorage(name) == Get("obj", name)

\* logger.Fatalf (package log/logger) logs and ends the process: it does
\* not return to its caller.
FatalfReturns == FALSE

\* logger.Fatalf only logs, and the lookup's zero value is returned.
MustGetLogsOnly(f, name) ==
    /\ Usable
    /\ LET r == Lookup(RegistryMap(f), name) IN
       got' = Call("mustGet", f, name, r[1], NoErr, TRUE)
    /\ closeLog' = <<>>
    /\ firstFailed' = 0
    /\ UNCHANGED <<units, defaulted, pcMain, next, wg, upc, uerr, snap, handle,
                   raced, calls, errs, objStorages, rds, dbs, first, fatal, retK,
                   retErr, exited, closed>>

\* kothak.go:278-285, 297-304, 316-323: the lookup, and on a miss
\* logger.Fatalf, which logs and ends the process: `return i` is not
\* reached.
MustGet(f, name) ==
    /\ Usable
    /\ LET r == Lookup(RegistryMap(f), name) IN
       IF r[2] \/ FatalfReturns
         THEN /\ got' = Call("mustGet", f, name, r[1], NoErr, TRUE)
              /\ UNCHANGED exited
         ELSE /\ got' = Call("mustGet", f, name, NilHandle, NoErr, FALSE)
              /\ exited' = TRUE
    /\ closeLog' = <<>>
    /\ firstFailed' = 0
    /\ UNCHANGED <<units, defaulted, pcMain, next, wg, upc, uerr, snap, handle,
                   raced, calls, errs, objStorages, rds, dbs, first, fatal, retK,
                   retErr, closed>>

MustGetSQLDB(name) == MustGet("db", name)
MustGetRedis(name) == MustGet("rds", name)
MustGetObjectStorage(name) == MustGet("obj", name)

\* The sequences that list every element of S once.
Perms(S) ==
    {q \in [1..Cardinality(S) -> S] :
        \A i \in DOMAIN q : \A j \in DOMAIN q : i # j => q[i] # q[j]}

\* The handles a map holds.
Held(m) == {m[n] : n \in DOMAIN m}

\* The orders in which `for _, h := range m` can visit the handles of m.
RangeOrders(m) ==
    {[i \in DOMAIN q |-> m[q[i]]] : q \in Perms(DOMAIN m)}

\* How often handle h is in the sequence q.
Count(q, h) == Cardinality({i \in DOMAIN q : q[i] = h})

\* What one more Close makes of a handle that is open, closed, or closed
\* more than once.
AfterClose(c) == IF c = "open" THEN "closed" ELSE "reclosed"

\* The effect of the Close calls on the handles of order, the first failing
\* one being call number n (0: none fails).
CloseEach(order, n) ==
    /\ closeLog' = order
    /\ firstFailed' = n
    /\ closed' = [u \in U |-> IF Count(order, handle[u]) > 0
                                THEN AfterClose(closed[u]) ELSE closed[u]]

\* The registry forgets its handles when it closed them.
CloseAllAndClear ==
    /\ Usable
    /\ \E o \in RangeOrders(objStorages) :
       \E d \in RangeOrders(dbs) :
       \E r \in RangeOrders(rds) :
         LET order == o \o d \o r IN
         \E n \in 0..Len(order) : CloseEach(order, n)
    /\ got' = Call("closeAll", "none", 0, NilHandle, NoErr, TRUE)
    /\ objStorages' = EmptyMap
    /\ rds' = EmptyMap
    /\ dbs' = EmptyMap
    /\ UNCHANGED <<units, defaulted, pcMain, next, wg, upc, uerr, snap, handle,
                   raced, calls, errs, first, fatal, retK, retErr, exited>>

\* The first Close that fails ends the call with its error.
CloseAllStopsOnError ==
    /\ Usable
    /\ \E o \in RangeOrders(objStorages) :
       \E d \in RangeOrders(dbs) :
       \E r \in RangeOrders(rds) :
         LET order == o \o d \o r IN
         \E n \in 0..Len(order) :
            /\ CloseEach(IF n = 0 THEN order ELSE SubSeq(order, 1, n), n)
            /\ got' = Call("closeAll", "none", 0, NilHandle,
                           IF n = 0 THEN NoErr ELSE Err(0, "call"), TRUE)
    /\ UNCHANGED <<units, defaulted, pcMain, next, wg, upc, uerr, snap, handle,
                   raced, calls, errs, objStorages, rds, dbs, first, fatal, retK,
                   retErr, exited>>

\* The databases are closed last.
CloseAllDatabasesLast ==
    /\ Usable
    /\ \E o \in RangeOrders(objStorages) :
       \E d \in RangeOrders(dbs) :
       \E r \in RangeOrders(rds) :
         LET order == o \o r \o d IN
         \E n \in 0..Len(order) : CloseEach(order, n)
    /\ got' = Call("closeAll", "none", 0, NilHandle, NoErr, TRUE)
    /\ UNCHANGED <<units, defaulted, pcMain, next, wg, upc, uerr, snap, handle,
                   raced, calls, errs, objStorages, rds, dbs, first, fatal, retK,
                   retErr, exited>>

\* kothak.go:251-266: Close on every handle of objStorages, then on every
\* handle of dbs, then on every handle of rds, each map in the order its
\* range yields.  Any of the Close calls may return an error (n: the first
\* that does); what Close returns is dropped, and the call returns nil.
\* The maps keep their entries.
CloseAll ==
    /\ Usable
    /\ \E o \in RangeOrders(objStorages) :
       \E d \in RangeOrders(dbs) :
       \E r \in RangeOrders(rds) :
         LET order == o \o d \o r IN
         \E n \in 0..Len(order) : CloseEach(order, n)
    /\ got' = Call("closeAll", "none", 0, NilHandle, NoErr, TRUE)
    /\ UNCHANGED <<units, defaulted, pcMain, next, wg, upc, uerr, snap, handle,
                   raced, calls, errs, objStorages, rds, dbs, first, fatal, retK,
                   retErr, exited>>

\* New, then calls on the registry it returned.
RegNext ==
    \/ \E ok \in BOOLEAN : SetDefault(ok)
    \/ SpawnObjStorage
    \/ SpawnRedis
    \/ SpawnDB
    \/ WaitAndReturn
    \/ \E u \in U : RunObjStorage(u)
    \/ \E u \in U : RunRedis(u)
    \/ \E u \in U : RunDB(u)
    \/ \E u \in U : AppendRead(u)
    \/ \E u \in U : MapBegin(u)
    \/ \E u \in U : AppendWrite(u)
    \/ \E u \in U : MapEnd(u)
    \/ \E name \in LookupNames("db") : GetSQLDB(name)
    \/ \E name \in LookupNames("rds") : GetRedis(name)
    \/ \E name \in LookupNames("obj") : GetObjectStorage(name)
    \/ \E name \in LookupNames("db") : MustGetSQLDB(name)
    \/ \E name \in LookupNames("rds") : MustGetRedis(name)
    \/ \E name \in LookupNames("obj") : MustGetObjectStorage(name)
    \/ CloseAll

RegSpec == Init /\ [][RegNext]_vars

Next ==
    \/ \E ok \in BOOLEAN : SetDefault(ok)
    \/ SpawnObjStorage
    \/ SpawnRedis
    \/ SpawnDB
    \/ WaitAndReturn
    \/ \E u \in U : RunObjStorage(u)
    \/ \E u \in U : RunRedis(u)
    \/ \E u \in U : RunDB(u)
    \/ \E u \in U : AppendRead(u)
    \/ \E u \in U : MapBegin(u)
    \/ \E u \in U : AppendWrite(u)
    \/ \E u \in U : MapEnd(u)

Spec == Init /\ [][Next]_vars

\* What New itself does, and what the goroutine of unit u does.
MainStep ==
    \/ \E ok \in BOOLEAN : SetDefault(ok)
    \/ SpawnObjStorage
    \/ SpawnRedis
    \/ SpawnDB
    \/ WaitAndReturn

UnitStep(u) ==
    /\ u \in U
    /\ \/ RunObjStorage(u)
       \/ RunRedis(u)
       \/ RunDB(u)
       \/ AppendRead(u)
       \/ MapBegin(u)
       \/ AppendWrite(u)
       \/ MapEnd(u)

\* The scheduler lets New and every goroutine that can take a step take it,
\* and every external call returns.
FairSpec ==
    /\ Spec
    /\ WF_vars(MainStep)
    /\ \A u \in 1..MaxUnits : WF_vars(UnitStep(u))

\* ------------------------------------------------------------- the claims
Failed(u) == uerr[u] # NoErr

FamilyUnits(f) == {u \in U : units[u].family = f}

\* The handle of unit u is what get returns for u's name.
Registered(u) ==
    LET m == RegistryMap(units[u].family) IN
    /\ units[u].name \in DOMAIN m
    /\ m[units[u].name] = handle[u]
    /\ handle[u].unit = u

\* The registry of family f holds the handles of the units in S, one per
\* unit, and no other key.
HoldsExactly(f, S) ==
    /\ DOMAIN RegistryMap(f) = {units[u].name : u \in S}
    /\ \A u \in S : Registered(u)

UniqueNames ==
    \A u \in U : \A v \in U :
        (u # v /\ units[u].family = units[v].family) => units[u].name # units[v].name

Returned == pcMain = "returned"

ConfigError == Err(0, "call")

\* C1: no two units are inside an access to the failure list at the same
\* time (between reading errs and storing the extended errs), and no two
\* units are inside an assignment to the same registry map at the same time.
C1_NoConcurrentAccess ==
    \A u \in U : \A v \in U :
        u # v =>
            /\ ~(upc[u] = "appendW" /\ upc[v] = "appendW")
            /\ ~(/\ upc[u] = "installing"
                 /\ upc[v] = "installing"
                 /\ units[u].family = units[v].family)

\* C2: the WaitGroup counter is the number of spawned units that have not
\* finished, and once New has returned every unit it spawned is done (none
\* is about to write errs or a map) and no unit was left unspawned after a
\* successful defaulting.
C2_JoinBarrier ==
    /\ wg = Cardinality({u \in U : upc[u] \notin {"idle", "done"}})
    /\ \A u \in U : (upc[u] = "idle") = (u >= next)
    /\ Returned =>
          /\ \A u \in U : upc[u] \in {"idle", "done"}
          /\ retK = "ptr" => \A u \in U : upc[u] = "done"

C2_Witness ==
    /\ Returned
    /\ retK = "ptr"
    /\ Cardinality(U) >= 2
    /\ \E u \in U : Failed(u)
    /\ \E u \in U : Registered(u)

\* C3: when New has returned for a configuration with unique names in
\* which no step of any unit failed, the error is nil and every family's
\* map holds exactly the handles of the family's entries.
C3_AllRegistered ==
    (Returned /\ retK = "ptr" /\ UniqueNames /\ \A u \in U : ~Failed(u))
        => /\ retErr = NoErr
           /\ \A f \in {"obj", "rds", "db"} : HoldsExactly(f, FamilyUnits(f))

BadProvider(u) ==
    units[u].family = "obj" /\ ProviderKind(units[u].provider) = "default"

\* C4: when New has returned for a configuration with unique names in
\* which exactly one object storage entry names an unknown provider and no
\* other unit failed, the error is non-nil and the maps hold exactly the
\* handles of all other entries.
C4_OneBadProvider ==
    (/\ Returned
     /\ retK = "ptr"
     /\ UniqueNames
     /\ Cardinality({u \in U : BadProvider(u)}) = 1
     /\ \A u \in U : Failed(u) => BadProvider(u))
        => /\ retErr # NoErr
           /\ \A f \in {"obj", "rds", "db"} :
                 HoldsExactly(f, {u \in FamilyUnits(f) : ~BadProvider(u)})

\* C5: when New has returned and some unit failed, the error is non-nil (it
\* is the error of a failed unit) and the registry is returned with it; when
\* New returns a nil error, no unit failed.
C5_ErrorIffUnitFailed ==
    Returned =>
        /\ (\E u \in U : Failed(u)) =>
              /\ retK = "ptr"
              /\ retErr # NoErr
              /\ \E u \in U : retErr = uerr[u]
        /\ retErr = NoErr => \A u \in U : ~Failed(u)

\* Two units failed and one of the two appends was lost.
C5_Witness ==
    /\ Returned
    /\ Cardinality({u \in U : Failed(u)}) >= 2
    /\ Len(errs) = 1
    /\ retErr # NoErr

\* C6 (as claimed): whenever New returns a non-nil error, the registry it
\* returns is non-nil.
C6_RegistryWithEveryError ==
    (Returned /\ retErr # NoErr) => retK = "ptr"

\* C6 (amended): New returns a non-nil registry with every error it returns
\* after the units were joined; on the path where DBConfig.SetDefault fails
\* it returns a nil registry with the defaulting error.
C6_RegistryUnlessDefaultingFailed ==
    Returned =>
        /\ defaulted = "ok" => retK = "ptr"
        /\ defaulted = "failed" => (retK = "nil" /\ retErr = ConfigError)
        /\ (retErr # NoErr /\ retErr # ConfigError) => retK = "ptr"

C6_Witness ==
    /\ Returned
    /\ retErr # NoErr
    /\ retK = "ptr"
    /\ \E u \in U : Registered(u)

\* C7: when New has returned and some append was written, the error New
\* returns is the error of the unit whose append was written first.
C7_FirstFailureReturned ==
    (Returned /\ first # 0) => retErr = uerr[first]

\* C8: once DBConfig.SetDefault has failed, New has returned the defaulting
\* error, no unit was spawned, no unit made any external call, and nothing
\* was recorded or registered.
C8_DefaultingFailureAborts ==
    defaulted = "failed" =>
        /\ Returned
        /\ retErr = ConfigError
        /\ next = 1
        /\ wg = 0
        /\ \A u \in U : upc[u] = "idle" /\ calls[u] = <<>>
        /\ errs = <<>>
        /\ \A f \in {"obj", "rds", "db"} : DOMAIN RegistryMap(f) = {}

C8_Witness ==
    /\ defaulted = "failed"
    /\ Returned
    /\ Cardinality({units[u].family : u \in U}) >= 2

Range(q) == {q[i] : i \in DOMAIN q}

\* DBConfig.SetDefault runs once, before any unit starts, and its failure is
\* never in the failure list.
DefaultingGatesUnits ==
    /\ (pcMain = "setDefault") = (defaulted = "no")
    /\ (\E u \in U : upc[u] # "idle") => defaulted = "ok"
    /\ \A i \in DOMAIN errs : errs[i] # ConfigError /\ errs[i].unit \in U

\* Unit u is recording the failure of its defaulting step.
RecordsDefaultingFailure(u) ==
    upc[u] = "failed" /\ calls[u] = <<"LeaderConnConfig.SetDefault">>

\* C9: DBConfig.SetDefault runs once before any unit starts and its failure
\* is never in the failure list, no unit runs a defaulting step, and no unit
\* records the failure of a defaulting step as its own failure.
C9_NoDefaultingInsideUnits ==
    /\ DefaultingGatesUnits
    /\ \A u \in U : "LeaderConnConfig.SetDefault" \notin Range(calls[u])
    /\ \A u \in U : ~RecordsDefaultingFailure(u)

\* C10: the follower pool of a database handle (about to be registered or
\* registered) is its leader pool when the entry has no replica DSN, and is
\* the pool of the unit's second Connect, another pool, when it has one.
C10_FollowerIsLeaderWithoutReplica ==
    /\ \A u \in FamilyUnits("db") :
          (upc[u] \in {"built", "installing", "done"} /\ ~Failed(u)) =>
              /\ handle[u].leader = <<u, "leader">>
              /\ ~units[u].replica => handle[u].follower = handle[u].leader
              /\ units[u].replica =>
                    /\ handle[u].follower = <<u, "replica">>
                    /\ handle[u].follower # handle[u].leader
              /\ upc[u] = "built" =>
                    ("sqldb.Connect/replica" \in Range(calls[u])) = units[u].replica
    /\ \A n \in DOMAIN dbs :
          /\ dbs[n] = handle[dbs[n].unit]
          /\ units[dbs[n].unit].name = n
          /\ (dbs[n].follower = dbs[n].leader) = ~units[dbs[n].unit].replica

C10_Witness ==
    /\ Returned
    /\ \E n \in DOMAIN dbs : dbs[n].follower = dbs[n].leader
    /\ \E n \in DOMAIN dbs : dbs[n].follower # dbs[n].leader

\* ------------------------------------------- the claims on the registry
\* The handles the three maps hold.
HeldHandles == Held(objStorages) \cup Held(dbs) \cup Held(rds)

\* Unit u ran to its end without a failure.
Succeeded(u) == upc[u] = "done" /\ ~Failed(u)

\* C11: a get that has been made returned to its caller and left the process
\* running; for a name its family's map does not hold it returned the nil
\* handle and a non-nil error, for a name the map holds it returned the
\* stored handle (never nil) and a nil error; and every name a map holds is
\* the name of an entry of that family whose unit completed successfully.
C11_GetReportsMiss ==
    /\ got.op = "get" =>
          /\ got.returned
          /\ ~exited
          /\ LET m == RegistryMap(got.family) IN
             IF got.name \in DOMAIN m
               THEN /\ got.handle = m[got.name]
                    /\ got.handle # NilHandle
                    /\ got.err = NoErr
               ELSE /\ got.handle = NilHandle
                    /\ got.err # NoErr
    /\ \A f \in {"obj", "rds", "db"} : \A n \in DOMAIN RegistryMap(f) :
          \E u \in FamilyUnits(f) : units[u].name = n /\ Succeeded(u)

\* A miss in a family that holds other names.
C11_Witness ==
    /\ got.op = "get"
    /\ got.err = NotExists
    /\ got.handle = NilHandle
    /\ DOMAIN RegistryMap(got.family) # {}
    /\ got.name \in {units[u].name : u \in FamilyUnits(got.family)}

\* C12: a mustGet for a name its family's map does not hold ended the
\* process and returned nothing to its caller; a mustGet that returned has
\* returned the handle the map holds under the name, which is the handle get
\* returns and is never nil.
C12_MustGetExitsOnMiss ==
    /\ got.op = "mustGet" =>
          LET m == RegistryMap(got.family) IN
          IF got.name \in DOMAIN m
            THEN /\ got.returned
                 /\ ~exited
                 /\ got.handle = Lookup(m, got.name)[1]
            ELSE /\ ~got.returned
                 /\ exited
    /\ (got.op = "mustGet" /\ got.returned) => got.handle # NilHandle
    /\ exited => (got.op = "mustGet" /\ ~got.returned)

C12_Witness ==
    /\ exited
    /\ got.op = "mustGet"
    /\ DOMAIN RegistryMap(got.family) # {}

\* C13: the Close calls of one CloseAll are one call on every handle the
\* three maps hold and no other call.
C13_CloseAllClosesEachOnce ==
    got.op = "closeAll" =>
        /\ \A h \in HeldHandles : Count(closeLog, h) = 1
        /\ \A i \in DOMAIN closeLog : closeLog[i] \in HeldHandles
        /\ Len(closeLog) = Cardinality(HeldHandles)

C13_Witness ==
    /\ got.op = "closeAll"
    /\ Len(closeLog) >= 2
    /\ firstFailed # 0
    /\ Cardinality({units[closeLog[i].unit].family : i \in DOMAIN closeLog}) >= 2

\* C14: Close is called at most once on every handle, over all the calls
\* made on the registry.
C14_ClosedAtMostOnce ==
    \A u \in U : closed[u] # "reclosed"

\* C15: once New has returned, no step changes any of the three maps, and
\* the lookup of every name in every family gives the same result after the
\* step as before it.
C15_RegistryReadOnly ==
    [][pcMain = "returned" =>
          /\ objStorages' = objStorages
          /\ rds' = rds
          /\ dbs' = dbs
          /\ \A f \in {"obj", "rds", "db"} : \A n \in LookupNames(f) :
                Lookup(RegistryMap(f), n)' = Lookup(RegistryMap(f), n)]_vars

\* A get that finds its handle after CloseAll was called.
C15_Witness ==
    /\ got.op = "get"
    /\ got.handle # NilHandle
    /\ closed[got.handle.unit] # "open"

\* The position of a handle's family in CloseAll.
CloseRank(h) ==
    LET f == units[h.unit].family IN
    CASE f = "obj" -> 1 [] f = "db" -> 2 [] f = "rds" -> 3

\* C20: in the Close calls of one CloseAll no handle of a later family
\* (object storage, then database, then cache) comes before a handle of an
\* earlier one; every handle the maps hold is closed, whichever Close calls
\* failed; and CloseAll returned a nil error.
C20_CloseAllByFamily ==
    got.op = "closeAll" =>
        /\ \A i \in DOMAIN closeLog : \A j \in DOMAIN closeLog :
              i < j => CloseRank(closeLog[i]) <= CloseRank(closeLog[j])
        /\ firstFailed \in 0..Len(closeLog)
        /\ \A h \in HeldHandles : \E i \in DOMAIN closeLog : closeLog[i] = h
        /\ got.returned
        /\ got.err = NoErr

\* The first Close of a call over three families failed.
C20_Witness ==
    /\ got.op = "closeAll"
    /\ Len(closeLog) >= 3
    /\ firstFailed = 1
    /\ {CloseRank(closeLog[i]) : i \in DOMAIN closeLog} = {1, 2, 3}

\* --------------------------------------------- the claims on the units
\* How many entries of the failure list are failures of unit u.
Recorded(u) == Cardinality({i \in DOMAIN errs : errs[i].unit = u})

\* C16: when New has returned the registry, every unit has exactly one
\* outcome: either its handle is in its family's map under its name and the
\* failure list has no failure of the unit, or the list has exactly one
\* failure of the unit and the map does not hold its handle; and with unique
\* names the number of handles the maps hold plus the length of the failure
\* list is the number of entries.
C16_OneOutcomePerUnit ==
    (Returned /\ retK = "ptr") =>
        /\ \A u \in U :
              \/ Registered(u) /\ Recorded(u) = 0
              \/ ~Registered(u) /\ Recorded(u) = 1
        /\ UniqueNames =>
              Cardinality(HeldHandles) + Len(errs) = Cardinality(U)

\* The calls of unit u that returned without an error: all it made, but
\* the last one when that one failed.
Completed(u) ==
    IF upc[u] = "failed"
      THEN SubSeq(calls[u], 1, Len(calls[u]) - 1)
      ELSE calls[u]

\* Unit u connected its leader pool and is on a path that ends without
\* installing a handle.
LeaksLeaderPool(u) ==
    /\ upc[u] = "failed"
    /\ "sqldb.Connect/leader" \in Range(Completed(u))

\* C17: no unit that opened its leader pool ends without installing its
\* handle, and when New has returned the registry, the handle of every unit
\* that opened one is what its family's map holds under the unit's name.
C17_EveryOpenedHandleOwned ==
    /\ \A u \in U : ~LeaksLeaderPool(u)
    /\ (Returned /\ retK = "ptr") =>
          \A u \in U : handle[u] # NilHandle => Registered(u)

\* C18: New returns at last, and every unit that was spawned ends at last.
C18_UnitsEndAndNewReturns ==
    /\ <>(pcMain = "returned")
    /\ \A u \in 1..MaxUnits :
          (u \in U /\ upc[u] = "run") ~> (u \in U /\ upc[u] = "done")

\* The position of call c in the sequence q (0: not in it).
Pos(q, c) ==
    IF c \in Range(q) THEN CHOOSE i \in DOMAIN q : q[i] = c ELSE 0

\* C19: in the calls a database unit made, a follower connect comes after
\* a leader connect that succeeded and is made only for an entry with a
\* replica DSN; a unit whose leader connect failed makes no further call;
\* a unit with a replica DSN that went on to sqldb.Wrap made the follower
\* connect before; and a unit that failed, at the leader connect or
\* elsewhere, built no handle and no map holds a handle of it.
C19_LeaderBeforeFollower ==
    /\ \A u \in FamilyUnits("db") :
          LET l == Pos(calls[u], "sqldb.Connect/leader")
              f == Pos(calls[u], "sqldb.Connect/replica")
              w == Pos(calls[u], "sqldb.Wrap")
          IN /\ f # 0 =>
                   /\ units[u].replica
                   /\ 0 < l
                   /\ l < f
                   /\ "sqldb.Connect/leader" \in Range(Completed(u))
             /\ (l # 0 /\ "sqldb.Connect/leader" \notin Range(Completed(u))) =>
                   /\ upc[u] = "failed"
                   /\ l = Len(calls[u])
                   /\ f = 0
             /\ (w # 0 /\ units[u].replica) => (0 < f /\ f < w)
             /\ (w # 0 /\ ~units[u].replica) => (0 < l /\ l < w)
    /\ \A u \in U :
          Failed(u) =>
             /\ upc[u] \in {"failed", "appendW", "done"}
             /\ handle[u] = NilHandle
             /\ \A n \in DOMAIN dbs : dbs[n].unit # u

\* A database unit is waiting in its follower connect, its leader connect
\* done, while a unit spawned before it has made no call yet.
C19_Witness ==
    \E u \in FamilyUnits("db") : \E v \in U :
        /\ v < u
        /\ upc[v] = "run"
        /\ calls[v] = <<>>
        /\ units[u].replica
        /\ upc[u] = "run"
        /\ calls[u] = <<"LeaderConnConfig.SetDefault", "sqldb.Connect/leader">>

====
